---- MODULE Spec2Model ----
(***************************************************************************)
(* Model of the meeting recorder's asynchronous glue code:                 *)
(*   - useTranscriptionHandler.handleTranscription and the service it      *)
(*     calls, analyzeTranscription;                                        *)
(*   - RecordingControls' audio-context effect and speech callback;        *)
(*   - ProfileSettings.handleSubmit / uploadAvatar.                        *)
(* Every `await` of the source is a point where the event loop may run     *)
(* something else: an action runs one synchronous stretch of code, from    *)
(* the settling of one awaited call to the issuing of the next.            *)
(***************************************************************************)
EXTENDS Naturals, Sequences, FiniteSets

(* ---------------------------------------------------------------------- *)
(* Bounds                                                                  *)
(* ---------------------------------------------------------------------- *)

\* Number of handleTranscription / analyzeTranscription invocations that may
\* be started (and may overlap) in one behaviour.
MaxInv == 2

\* Number of AudioContexts RecordingControls may create in one behaviour.
MaxCtx == 2

\* Number of speech-onset events delivered in one behaviour.
MaxSpeech == 2

\* Number of handleSubmit calls in one behaviour.
MaxSubmits == 3

\* Number of confirmStopRecording calls in one behaviour.
MaxConfirms == 2

(* ---------------------------------------------------------------------- *)
(* Values                                                                  *)
(* ---------------------------------------------------------------------- *)

\* The placeholder keys compared at useTranscriptionHandler.ts:36-37, as
\* character sequences.
PlaceholderOpenAI ==
    << "y","o","u","r","_","o","p","e","n","a","i","_",
       "a","p","i","_","k","e","y","_","h","e","r","e" >>

PlaceholderGoogle ==
    << "y","o","u","r","_","g","o","o","g","l","e","_",
       "a","p","i","_","k","e","y","_","h","e","r","e" >>

\* The API keys the model tries: empty, blank, the two placeholders, a masked
\* key and a usable key.
ApiKeys ==
    { << >>, << " ", " " >>, PlaceholderOpenAI, PlaceholderGoogle,
      << "s", "k", "*", "*" >>, << "s", "k" >> }

Services == { "openai", "google" }

\* `minutes` is an optional prop: NoMinutes stands for undefined.
NoMinutes == [ id |-> "undefined", summary |-> "" ]

TheMinutes == [ id |-> "m1", summary |-> "draft" ]

\* What analyzeTranscription resolves to: null, or the parsed response.
Null == [ null |-> TRUE, summary |-> "" ]

AnalysisResult(s) == [ null |-> FALSE, summary |-> s ]

\* Bodies the analysis endpoint may answer with (JSON null parses to null).
AnalysisBodies == { AnalysisResult("resumo"), Null }

\* The segment lists a transcription may return: the code only tells an
\* empty list from a non-empty one.
SegmentLists == { << >>, << "segment" >> }

\* Toast titles.
ToastErro == "Erro na transcrição"

ToastConcluida == "Transcrição concluída"

ToastAnalise == "Análise concluída"

\* RecordingControls.tsx:113
ToastAndamento == "Transcrição em andamento"

\* Error messages thrown inside handleTranscription.
MsgKey == "Por favor, configure uma chave válida da API"

MsgUpload == "Failed to upload audio file"

Msg401 == "Chave da API OpenAI inválida"

MsgOpenAI == "Erro na API OpenAI"

MsgMinutes == "Failed to save meeting minutes"

\* Messages of the errors the awaited calls reject with.
MsgUploadRejected == "storage.upload rejected"

MsgGoogle == "transcribeWithGoogleCloud rejected"

MsgFetchRejected == "fetch rejected"

MsgJsonRejected == "response.json rejected"

MsgProcess == "processTranscriptionResult rejected"

MsgGetUser == "auth.getUser rejected"

MsgUpsertRejected == "meeting_minutes.upsert rejected"

VARIABLES
    \* useTranscriptionHandler
    apiKey,                 \* prop: the API key, a sequence of characters
    transcriptionService,   \* prop: 'openai' | 'google'
    hasOnMinutesUpdate,     \* prop: whether onMinutesUpdate was passed
    minutes,                \* prop: the parent's current minutes (or NoMinutes)
    isTranscribing,         \* parent state written by setIsTranscribing
    transcriptionSegments,  \* parent state written by setTranscriptionSegments
    inv,                    \* the invocations, by call order
    \* RecordingControls
    mounted,                \* the component is mounted
    isRecording,            \* prop
    isPaused,               \* prop
    systemAudioEnabled,     \* window.systemAudioEnabled
    hasOnSpeechDetected,    \* prop: whether onSpeechDetected was passed
    audioContext,           \* state: id of the AudioContext, 0 for null
    analyser,               \* state: id of the context of the analyser, 0 for null
    systemAnalyser,         \* state: likewise for the system-audio analyser
    effectContext,          \* audioContext closed over by the pending cleanup
    contexts,               \* every AudioContext created, with its streams
    audioDataRef,           \* audioDataRef.current
    speech,                 \* what the speech callback did, counted
    \* ProfileSettings
    user,                   \* user?.id is defined
    avatar,                 \* state: the selected file, or "null"
    isLoading,              \* state
    submission,             \* the handleSubmit call in flight or last finished
    toasts,                 \* titles of the notifications shown, in order
    storedAvatarUrl,        \* avatar_url of the user's row in 'profiles'
    submits,                \* number of handleSubmit calls so far
    \* RecordingControls: the stop confirmation
    showStopConfirmation,   \* state
    confirms,               \* the confirmStopRecording calls, in call order
    stopCalls               \* times the onStopRecording prop was invoked

tvars == << apiKey, transcriptionService, hasOnMinutesUpdate, minutes,
            isTranscribing, transcriptionSegments, inv >>

rvars == << mounted, isRecording, isPaused, systemAudioEnabled,
            hasOnSpeechDetected, audioContext, analyser, systemAnalyser,
            effectContext, contexts, audioDataRef, speech >>

pvars == << user, avatar, isLoading, submission, toasts, storedAvatarUrl,
           submits >>

svars == << showStopConfirmation, confirms, stopCalls >>

vars == << tvars, rvars, pvars, svars >>

(* ---------------------------------------------------------------------- *)
(* String helpers (String.prototype.trim / includes)                       *)
(* ---------------------------------------------------------------------- *)

IsSpace(c) == c = " "

RECURSIVE TrimStart(_)
TrimStart(s) ==
    IF s # << >> /\ IsSpace(Head(s)) THEN TrimStart(Tail(s)) ELSE s

RECURSIVE TrimEnd(_)
TrimEnd(s) ==
    IF s # << >> /\ IsSpace(s[Len(s)])
    THEN TrimEnd(SubSeq(s, 1, Len(s) - 1))
    ELSE s

Trim(s) == TrimEnd(TrimStart(s))

Includes(s, c) == \E k \in 1..Len(s) : s[k] = c

\* Faulty variant: the check for a masked key (one containing '*') is missing.
InvalidApiKeyNoMask(k) ==
    \/ k = << >>
    \/ Trim(k) = << >>
    \/ k = PlaceholderOpenAI
    \/ k = PlaceholderGoogle

\* The condition of the `if` at useTranscriptionHandler.ts:36-37.
InvalidApiKey(k) ==
    \/ k = << >>
    \/ Trim(k) = << >>
    \/ k = PlaceholderOpenAI
    \/ k = PlaceholderGoogle
    \/ Includes(k, "*")

(* ---------------------------------------------------------------------- *)
(* Invocations                                                             *)
(* ---------------------------------------------------------------------- *)

Idle ==
    [ pc |-> "idle",            \* where the invocation is suspended
      caller |-> "none",        \* "handler": handleTranscription; "direct"
      minutes |-> NoMinutes,    \* the `minutes` the call closed over / was given
      segsBefore |-> << >>,     \* transcriptionSegments when the call started
      transcribed |-> FALSE,    \* the transcription resolved
      segments |-> << >>,       \* `segments`
      shown |-> << >>,          \* argument of setTranscriptionSegments
      audioPath |-> "",         \* `audioPath`
      status |-> 0,             \* response.status of a non-OK OpenAI answer
      savedMinutes |-> NoMinutes,
      transcriptionRecord |-> FALSE,  \* a history record was inserted
      analysisFailure |-> "",   \* the call of the analysis that failed
      analysis |-> Null,        \* what analyzeTranscription resolved to
      updatedMinutes |-> NoMinutes,   \* argument of onMinutesUpdate
      error |-> "",             \* message of the caught error
      log |-> << >> ]           \* calls made by the invocation, in order

\* A world: one invocation together with the parent state its code writes.
World(i) ==
    [ r |-> inv[i],
      isTranscribing |-> isTranscribing,
      transcriptionSegments |-> transcriptionSegments,
      minutes |-> minutes ]

Commit(i, w) ==
    /\ inv' = [ inv EXCEPT ![i] = w.r ]
    /\ isTranscribing' = w.isTranscribing
    /\ transcriptionSegments' = w.transcriptionSegments
    /\ minutes' = w.minutes
    /\ UNCHANGED << apiKey, transcriptionService, hasOnMinutesUpdate >>
    /\ UNCHANGED << rvars, pvars, svars >>

Log(w, op) == [ w EXCEPT !.r.log = Append(@, op) ]

At(w, pc) == [ w EXCEPT !.r.pc = pc ]

(* ---------------------------------------------------------------------- *)
(* handleTranscription: catch / finally and the success tail               *)
(* ---------------------------------------------------------------------- *)

Toast(w, title) == Log(w, title)

\* finally { setIsTranscribing(false) }
Finally(w) ==
    [ Log(At(w, "done"), "setIsTranscribing(false)")
        EXCEPT !.isTranscribing = FALSE ]

\* Faulty variant: the catch block logs the error but shows no notification.
CatchNoToast(w, msg) == Finally([ w EXCEPT !.r.error = msg ])

\* catch (error) { toast({ title: "Erro na transcrição", ... }) } finally ...
Catch(w, msg) ==
    Finally(Toast([ w EXCEPT !.r.error = msg ], ToastErro))

\* Faulty variant: setIsTranscribing(false) at the end of the try block instead of in
\* a finally, and before the notification.
CompletedResetsEarly(w) ==
    Toast([ Log(Log(At(w, "done"), "setTranscriptionSegments"),
                "setIsTranscribing(false)")
              EXCEPT !.transcriptionSegments = w.r.segments,
                     !.r.shown = w.r.segments,
                     !.isTranscribing = FALSE ],
          ToastConcluida)

\* setTranscriptionSegments(segments); toast("Transcrição concluída"); finally
Completed(w) ==
    Finally(Toast([ Log(w, "setTranscriptionSegments")
                      EXCEPT !.transcriptionSegments = w.r.segments,
                             !.r.shown = w.r.segments ],
                  ToastConcluida))

\* The code after `await analyzeTranscription(...)`: if (analysis) { ... }
\* and on to the success tail. onMinutesUpdate is the parent's
\* setCurrentMinutes, and its state is the `minutes` prop of later calls.
AfterAnalysis(w, analysis) ==
    LET w1 == [ w EXCEPT !.r.analysis = analysis ]
        updatedMinutes ==
            [ w.r.savedMinutes EXCEPT !.summary = analysis.summary ]
        w2 == IF hasOnMinutesUpdate
              THEN [ Log(w1, "onMinutesUpdate")
                       EXCEPT !.r.updatedMinutes = updatedMinutes,
                              !.minutes = updatedMinutes ]
              ELSE w1
    IN  IF ~ analysis.null
        THEN Completed(Toast(w2, ToastAnalise))
        ELSE Completed(w1)

(* ---------------------------------------------------------------------- *)
(* analyzeTranscription                                                    *)
(* ---------------------------------------------------------------------- *)

\* The promise of analyzeTranscription resolves with `result`: a direct
\* caller gets the value; handleTranscription continues after its await.
AnalysisReturns(w, result) ==
    IF w.r.caller = "direct"
    THEN At([ w EXCEPT !.r.analysis = result ], "returned")
    ELSE AfterAnalysis(w, result)

\* From the call to the first await: the audioPath check and the insert into
\* transcription_history. The thrown error is caught by the function's own
\* catch, which returns null.
analyzeTranscription(w) ==
    IF w.r.audioPath = ""
    THEN AnalysisReturns(w, Null)
    ELSE At(Log(w, "transcription_history.insert"), "awaitInsert")

InsertOutcomes == { "ok", "error", "noRecord", "reject" }

\* Faulty variant: only saveError is checked, not the missing record.
InsertSettledNoRecordCheck(w, outcome) ==
    IF outcome \in { "ok", "noRecord" }
    THEN At(Log([ w EXCEPT !.r.transcriptionRecord = (outcome = "ok") ],
                "fetch:/api/analyze-transcription"),
            "awaitAnalysisFetch")
    ELSE AnalysisReturns([ w EXCEPT !.r.analysisFailure = "insert" ], Null)

\* if (saveError || !transcriptionRecord) return null; then the POST.
InsertSettled(w, outcome) ==
    IF outcome = "ok"
    THEN At(Log([ w EXCEPT !.r.transcriptionRecord = TRUE ],
                "fetch:/api/analyze-transcription"),
            "awaitAnalysisFetch")
    ELSE AnalysisReturns([ w EXCEPT !.r.analysisFailure = "insert" ], Null)

AnalysisFetchOutcomes == { "ok", "notOk", "reject" }

\* if (!response.ok) throw ...; return await response.json()
AnalysisFetchSettled(w, outcome) ==
    IF outcome = "ok"
    THEN At(w, "awaitAnalysisJson")
    ELSE AnalysisReturns([ w EXCEPT !.r.analysisFailure = "post" ], Null)

AnalysisJsonOutcomes ==
    { [ ok |-> TRUE, body |-> b ] : b \in AnalysisBodies }
        \cup { [ ok |-> FALSE, body |-> Null ] }

AnalysisJsonSettled(w, outcome) ==
    IF outcome.ok
    THEN AnalysisReturns(w, outcome.body)
    ELSE AnalysisReturns([ w EXCEPT !.r.analysisFailure = "post" ], Null)

(* ---------------------------------------------------------------------- *)
(* handleTranscription: the steps of the try block                         *)
(* ---------------------------------------------------------------------- *)

SettleOutcomes == { "ok", "error", "reject" }

\* if (minutesError) throw ...; analysis = await analyzeTranscription(...)
UpsertSettled(w, outcome) ==
    CASE outcome = "ok" ->
            analyzeTranscription([ w EXCEPT !.r.savedMinutes = w.r.minutes ])
      [] outcome = "error" -> Catch(w, MsgMinutes)
      [] OTHER -> Catch(w, MsgUpsertRejected)

\* The upsert's argument awaits supabase.auth.getUser() first.
GetUserSettled(w, outcome) ==
    IF outcome = "ok"
    THEN At(Log(w, "meeting_minutes.upsert"), "awaitUpsert")
    ELSE Catch(w, MsgGetUser)

\* Faulty variant: the condition tests only segments.length > 0.
TranscribedIgnoresMinutes(w, segs) ==
    LET w1 == [ w EXCEPT !.r.segments = segs, !.r.transcribed = TRUE ]
    IN  IF Len(segs) > 0
        THEN At(Log(w1, "auth.getUser"), "awaitGetUser")
        ELSE Completed(w1)

\* if (segments.length > 0 && minutes) { ... } setTranscriptionSegments ...
Transcribed(w, segs) ==
    LET w1 == [ w EXCEPT !.r.segments = segs, !.r.transcribed = TRUE ]
    IN  IF Len(segs) > 0 /\ w.r.minutes # NoMinutes
        THEN At(Log(w1, "auth.getUser"), "awaitGetUser")
        ELSE Completed(w1)

TranscriptionOutcomes ==
    { [ ok |-> TRUE, segments |-> s ] : s \in SegmentLists }
        \cup { [ ok |-> FALSE, segments |-> << >> ] }

\* segments = await transcribeWithGoogleCloud(audioBlob, cleanApiKey)
GoogleSettled(w, outcome) ==
    IF outcome.ok
    THEN Transcribed(w, outcome.segments)
    ELSE Catch(w, MsgGoogle)

\* segments = await processTranscriptionResult(responseData, ...)
ProcessSettled(w, outcome) ==
    IF outcome.ok
    THEN Transcribed(w, outcome.segments)
    ELSE Catch(w, MsgProcess)

\* const responseData = await response.json()
ResponseJsonSettled(w, outcome) ==
    IF outcome = "ok"
    THEN At(Log(w, "processTranscriptionResult"), "awaitProcess")
    ELSE Catch(w, MsgJsonRejected)

\* const errorData = await response.json(); 401 or any other status
ErrorDataSettled(w, outcome) ==
    CASE outcome # "ok" -> Catch(w, MsgJsonRejected)
      [] w.r.status = 401 -> Catch(w, Msg401)
      [] OTHER -> Catch(w, MsgOpenAI)

\* Statuses the OpenAI endpoint answers with; 0 stands for a rejected fetch.
FetchStatuses == { 0, 200, 401, 500 }

\* const response = await fetch(...); if (!response.ok) { ... }
FetchSettled(w, status) ==
    CASE status = 0 -> Catch(w, MsgFetchRejected)
      [] status = 200 -> At(w, "awaitResponseJson")
      [] OTHER -> At([ w EXCEPT !.r.status = status ], "awaitErrorData")

\* Faulty variant: uploadError is not checked.
UploadSettledIgnoresError(w, outcome) ==
    LET w1 == [ w EXCEPT !.r.audioPath =
                            IF outcome = "ok" THEN "audio.wav" ELSE "" ]
    IN  IF outcome = "reject"
        THEN Catch(w, MsgUploadRejected)
        ELSE IF transcriptionService = "google"
             THEN At(Log(w1, "transcribeWithGoogleCloud"), "awaitGoogle")
             ELSE At(Log(w1, "fetch:openai"), "awaitFetch")

\* if (uploadError) throw ...; audioPath = uploadData.path; then the request
\* to the selected transcription service.
UploadSettled(w, outcome) ==
    CASE outcome = "ok" ->
            LET w1 == [ w EXCEPT !.r.audioPath = "audio.wav" ]
            IN  IF transcriptionService = "google"
                THEN At(Log(w1, "transcribeWithGoogleCloud"), "awaitGoogle")
                ELSE At(Log(w1, "fetch:openai"), "awaitFetch")
      [] outcome = "error" -> Catch(w, MsgUpload)
      [] OTHER -> Catch(w, MsgUploadRejected)

\* From the call to the first await: setIsTranscribing(true), the API key
\* check, and the upload to 'meeting_recordings'.
handleTranscription(w) ==
    LET w1 == [ Log(w, "setIsTranscribing(true)")
                  EXCEPT !.isTranscribing = TRUE,
                         !.r.caller = "handler",
                         !.r.minutes = w.minutes,
                         !.r.segsBefore = w.transcriptionSegments ]
    IN  IF InvalidApiKey(apiKey)
        THEN Catch(w1, MsgKey)
        ELSE At(Log(w1, "storage.upload"), "awaitUpload")

(* ---------------------------------------------------------------------- *)
(* Actions                                                                 *)
(* ---------------------------------------------------------------------- *)

Invs == 1..MaxInv

\* Invocations are numbered in call order.
CanStart(i) ==
    /\ inv[i].pc = "idle"
    /\ \A j \in Invs : j < i => inv[j].pc # "idle"

Invoke(i) ==
    /\ CanStart(i)
    /\ Commit(i, handleTranscription(World(i)))

UploadSettles(i) ==
    /\ inv[i].pc = "awaitUpload"
    /\ \E o \in SettleOutcomes : Commit(i, UploadSettled(World(i), o))

GoogleSettles(i) ==
    /\ inv[i].pc = "awaitGoogle"
    /\ \E o \in TranscriptionOutcomes : Commit(i, GoogleSettled(World(i), o))

FetchSettles(i) ==
    /\ inv[i].pc = "awaitFetch"
    /\ \E s \in FetchStatuses : Commit(i, FetchSettled(World(i), s))

ErrorDataSettles(i) ==
    /\ inv[i].pc = "awaitErrorData"
    /\ \E o \in { "ok", "reject" } : Commit(i, ErrorDataSettled(World(i), o))

ResponseJsonSettles(i) ==
    /\ inv[i].pc = "awaitResponseJson"
    /\ \E o \in { "ok", "reject" } :
          Commit(i, ResponseJsonSettled(World(i), o))

ProcessSettles(i) ==
    /\ inv[i].pc = "awaitProcess"
    /\ \E o \in TranscriptionOutcomes : Commit(i, ProcessSettled(World(i), o))

GetUserSettles(i) ==
    /\ inv[i].pc = "awaitGetUser"
    /\ \E o \in { "ok", "reject" } : Commit(i, GetUserSettled(World(i), o))

UpsertSettles(i) ==
    /\ inv[i].pc = "awaitUpsert"
    /\ \E o \in SettleOutcomes : Commit(i, UpsertSettled(World(i), o))

InsertSettles(i) ==
    /\ inv[i].pc = "awaitInsert"
    /\ \E o \in InsertOutcomes : Commit(i, InsertSettled(World(i), o))

AnalysisFetchSettles(i) ==
    /\ inv[i].pc = "awaitAnalysisFetch"
    /\ \E o \in AnalysisFetchOutcomes :
          Commit(i, AnalysisFetchSettled(World(i), o))

AnalysisJsonSettles(i) ==
    /\ inv[i].pc = "awaitAnalysisJson"
    /\ \E o \in AnalysisJsonOutcomes :
          Commit(i, AnalysisJsonSettled(World(i), o))

\* analyzeTranscription called on its own (it is an exported function), with
\* or without an audioPath.
AnalyzeDirect(i) ==
    /\ CanStart(i)
    /\ \E segs \in SegmentLists, path \in { "", "audio.wav" } :
          Commit(i, analyzeTranscription(
                        [ World(i) EXCEPT !.r.caller = "direct",
                                          !.r.segments = segs,
                                          !.r.savedMinutes = TheMinutes,
                                          !.r.audioPath = path ]))

(* ---------------------------------------------------------------------- *)
(* RecordingControls: the audio-context effect                             *)
(* ---------------------------------------------------------------------- *)

Ctxs == 1..MaxCtx

NoContext ==
    [ state |-> "none",     \* "open" until AudioContext.close(), then "closed"
      setup |-> "none",     \* where its setupAudioContext call is suspended
      micStream |-> "none",       \* "live" once getUserMedia resolved
      displayStream |-> "none" ]  \* "live" once getDisplayMedia resolved

\* The component state and the browser objects the effect's code touches.
Audio ==
    [ audioContext |-> audioContext,
      analyser |-> analyser,
      systemAnalyser |-> systemAnalyser,
      contexts |-> contexts ]

\* A state setter is a no-op once the component is unmounted.
CommitAudio(a) ==
    /\ contexts' = a.contexts
    /\ audioContext' = IF mounted' THEN a.audioContext ELSE audioContext
    /\ analyser' = IF mounted' THEN a.analyser ELSE analyser
    /\ systemAnalyser' = IF mounted' THEN a.systemAnalyser ELSE systemAnalyser

\* cleanupAudioContext as defined by the render in which `seen` was the
\* value of the audioContext state.
cleanupAudioContext(a, seen) ==
    LET a1 == IF seen # 0
              THEN [ a EXCEPT !.contexts[seen].state = "closed",
                              !.audioContext = 0 ]
              ELSE a
    IN  [ a1 EXCEPT !.analyser = 0, !.systemAnalyser = 0 ]

FreshContext == CHOOSE c \in Ctxs : contexts[c].state = "none"

\* setupAudioContext up to its first await: new AudioContext(), then the
\* request for the microphone.
setupAudioContext(a) ==
    [ a EXCEPT !.contexts[FreshContext] =
                  [ NoContext EXCEPT !.state = "open",
                                     !.setup = "awaitMic" ] ]

\* The effect of useEffect(..., [isRecording, isPaused]) after a render with
\* new values of the two props: the previous run's cleanup, which closed over
\* effectContext, then the body, which sees this render's audioContext.
Effect(a, recording, paused) ==
    LET a1 == cleanupAudioContext(a, effectContext)
    IN  IF recording /\ ~ paused
        THEN setupAudioContext(a1)
        ELSE cleanupAudioContext(a1, a.audioContext)

PropsChange(recording, paused) ==
    /\ mounted
    /\ isRecording' = recording
    /\ isPaused' = paused
    /\ (recording /\ ~ paused) => \E c \in Ctxs : contexts[c].state = "none"
    /\ mounted' = TRUE
    /\ CommitAudio(Effect(Audio, recording, paused))
    /\ effectContext' = audioContext
    /\ UNCHANGED << systemAudioEnabled, hasOnSpeechDetected, audioDataRef,
                    speech >>
    /\ UNCHANGED << tvars, pvars, svars >>

StartRecording == ~ isRecording /\ PropsChange(TRUE, FALSE)

PauseRecording == isRecording /\ ~ isPaused /\ PropsChange(TRUE, TRUE)

ResumeRecording == isRecording /\ isPaused /\ PropsChange(TRUE, FALSE)

StopRecording == isRecording /\ PropsChange(FALSE, FALSE)

\* Unmounting runs the pending cleanup.
Unmount ==
    /\ mounted
    /\ mounted' = FALSE
    /\ contexts' = cleanupAudioContext(Audio, effectContext).contexts
    /\ UNCHANGED << isRecording, isPaused, systemAudioEnabled,
                    hasOnSpeechDetected, audioContext, analyser,
                    systemAnalyser, effectContext, audioDataRef, speech >>
    /\ UNCHANGED << tvars, pvars, svars >>

\* getUserMedia settled: lines 61-91 up to the next await, or the catch.
MicSettled(a, c, ok) ==
    IF ~ ok
    THEN [ a EXCEPT !.contexts[c].setup = "done" ]
    ELSE [ a EXCEPT !.contexts[c].micStream = "live",
                    !.contexts[c].setup =
                        IF systemAudioEnabled THEN "awaitDisplay" ELSE "done",
                    !.audioContext = c,
                    !.analyser = c ]

MicSettles(c) ==
    /\ contexts[c].setup = "awaitMic"
    /\ UNCHANGED mounted
    /\ \E ok \in BOOLEAN : CommitAudio(MicSettled(Audio, c, ok))
    /\ UNCHANGED << isRecording, isPaused, systemAudioEnabled,
                    hasOnSpeechDetected, effectContext, audioDataRef, speech >>
    /\ UNCHANGED << tvars, pvars, svars >>

\* getDisplayMedia settled: lines 83-90.
DisplaySettled(a, c, ok) ==
    IF ~ ok
    THEN [ a EXCEPT !.contexts[c].setup = "done" ]
    ELSE [ a EXCEPT !.contexts[c].displayStream = "live",
                    !.contexts[c].setup = "done",
                    !.systemAnalyser = c ]

DisplaySettles(c) ==
    /\ contexts[c].setup = "awaitDisplay"
    /\ UNCHANGED mounted
    /\ \E ok \in BOOLEAN : CommitAudio(DisplaySettled(Audio, c, ok))
    /\ UNCHANGED << isRecording, isPaused, systemAudioEnabled,
                    hasOnSpeechDetected, effectContext, audioDataRef, speech >>
    /\ UNCHANGED << tvars, pvars, svars >>

(* ---------------------------------------------------------------------- *)
(* RecordingControls: handleSpeechDetected                                 *)
(* ---------------------------------------------------------------------- *)

NoSpeech ==
    [ onsets |-> 0,       \* calls of handleSpeechDetected
      live |-> 0,         \* ... made while recording ran and analyser was set
      identified |-> 0,   \* calls of identifyMostSimilarSpeaker
      delivered |-> 0 ]   \* calls of onSpeechDetected

\* handleSpeechDetected(timestamp)
handleSpeechDetected(sp) ==
    IF audioDataRef = "null" \/ analyser = 0
    THEN sp
    ELSE [ sp EXCEPT !.identified = @ + 1,
                     !.delivered = IF hasOnSpeechDetected THEN @ + 1 ELSE @ ]

\* AudioWaveform, rendered while isRecording, reports a speech onset.
SpeechDetected ==
    /\ mounted
    /\ isRecording
    /\ speech.onsets < MaxSpeech
    /\ speech' =
          handleSpeechDetected(
              [ speech EXCEPT !.onsets = @ + 1,
                              !.live = IF ~ isPaused /\ analyser # 0
                                       THEN @ + 1 ELSE @ ])
    /\ UNCHANGED << mounted, isRecording, isPaused, systemAudioEnabled,
                    hasOnSpeechDetected, audioContext, analyser,
                    systemAnalyser, effectContext, contexts, audioDataRef >>
    /\ UNCHANGED << tvars, pvars, svars >>

(* ---------------------------------------------------------------------- *)
(* RecordingControls: the stop confirmation                                *)
(* ---------------------------------------------------------------------- *)

Confirms == 1..MaxConfirms

\* One confirmStopRecording call.
NoConfirm ==
    [ pc |-> "idle",          \* "idle", "awaitStop", "done"
      stopped |-> "pending",  \* how the awaited onStopRecording() settled
      log |-> << >> ]         \* what the call did, in order

\* The state the stop handlers read and write.
StopFlow ==
    [ showStopConfirmation |-> showStopConfirmation,
      confirms |-> confirms,
      stopCalls |-> stopCalls ]

CommitStop(s) ==
    /\ showStopConfirmation' = s.showStopConfirmation
    /\ confirms' = s.confirms
    /\ stopCalls' = s.stopCalls

\* Faulty variant: the stop control stops the recording right away.
handleStopRecordingStops(s) ==
    [ s EXCEPT !.showStopConfirmation = TRUE, !.stopCalls = @ + 1 ]

\* handleStopRecording: lines 106-108.
handleStopRecording(s) == [ s EXCEPT !.showStopConfirmation = TRUE ]

\* onOpenChange={setShowStopConfirmation}, called by the dialog with false.
onOpenChange(s, open) == [ s EXCEPT !.showStopConfirmation = open ]

\* confirmStopRecording up to its await: lines 110-112.
confirmStopRecording(s, k) ==
    [ s EXCEPT !.showStopConfirmation = FALSE,
               !.stopCalls = @ + 1,
               !.confirms[k] =
                   [ pc |-> "awaitStop",
                     stopped |-> "pending",
                     log |-> << "setShowStopConfirmation(false)",
                                "onStopRecording" >> ] ]

StopOutcomes == { "resolved", "rejected" }

\* confirmStopRecording after its await: lines 113-116, or the rejection
\* leaving the function.
onStopRecordingSettled(s, k, outcome) ==
    [ s EXCEPT !.confirms[k].pc = "done",
               !.confirms[k].stopped = outcome,
               !.confirms[k].log =
                   IF outcome = "resolved"
                   THEN Append(@, ToastAndamento) ELSE @ ]

\* ControlButtons, rendered while isRecording, reports a click on stop.
StopClick ==
    /\ mounted
    /\ isRecording
    /\ CommitStop(handleStopRecording(StopFlow))
    /\ UNCHANGED << tvars, rvars, pvars >>

\* The open dialog is dismissed.
DismissDialog ==
    /\ mounted
    /\ showStopConfirmation
    /\ CommitStop(onOpenChange(StopFlow, FALSE))
    /\ UNCHANGED << tvars, rvars, pvars >>

\* The open dialog is confirmed.
ConfirmStop ==
    /\ mounted
    /\ showStopConfirmation
    /\ \E k \in Confirms :
          /\ confirms[k].pc = "idle"
          /\ \A j \in 1..(k - 1) : confirms[j].pc # "idle"
          /\ CommitStop(confirmStopRecording(StopFlow, k))
    /\ UNCHANGED << tvars, rvars, pvars >>

\* The parent, inside a pending onStopRecording call, stops the recording.
StopRecordingConfirmed ==
    /\ \E k \in Confirms : confirms[k].pc = "awaitStop"
    /\ StopRecording

OnStopRecordingSettles(k) ==
    /\ confirms[k].pc = "awaitStop"
    /\ \E outcome \in StopOutcomes :
          CommitStop(onStopRecordingSettled(StopFlow, k, outcome))
    /\ UNCHANGED << tvars, rvars, pvars >>

(* ---------------------------------------------------------------------- *)
(* ProfileSettings                                                         *)
(* ---------------------------------------------------------------------- *)

ToastPerfil == "Perfil atualizado!"

ToastErroPerfil == "Erro ao atualizar perfil"

NoSubmission ==
    [ pc |-> "idle",          \* where handleSubmit is suspended
      avatar |-> "null",      \* the file uploadAvatar was given
      uploadFailed |-> FALSE, \* the avatar upload failed
      avatarUrl |-> "null",   \* what uploadAvatar resolved to
      log |-> << >> ]         \* calls made by this handleSubmit, in order

Form ==
    [ s |-> submission, isLoading |-> isLoading, toasts |-> toasts,
      storedAvatarUrl |-> storedAvatarUrl ]

CommitForm(f) ==
    /\ submission' = f.s
    /\ isLoading' = f.isLoading
    /\ toasts' = f.toasts
    /\ storedAvatarUrl' = f.storedAvatarUrl

FormLog(f, op) == [ f EXCEPT !.s.log = Append(@, op) ]

FormToast(f, title) ==
    [ FormLog(f, title) EXCEPT !.toasts = Append(@, title) ]

\* finally { setIsLoading(false) }
SubmitFinally(f) ==
    [ FormLog(f, "setIsLoading(false)")
        EXCEPT !.isLoading = FALSE, !.s.pc = "done" ]

\* uploadAvatar resolved to `url`; handleSubmit goes on to the upsert.
AvatarUploaded(f, url) ==
    [ FormLog([ f EXCEPT !.s.avatarUrl = url ], "profiles.upsert")
        EXCEPT !.s.pc = "awaitUpsert" ]

\* uploadAvatar after its await: a failed upload is caught and null returned.
AvatarUploadSettled(f, outcome) ==
    IF outcome = "ok"
    THEN AvatarUploaded(f, "publicUrl")
    ELSE AvatarUploaded([ f EXCEPT !.s.uploadFailed = TRUE ], "null")

\* uploadAvatar up to its await: if (!avatar) return null; else the upload.
uploadAvatar(f) ==
    IF f.s.avatar = "null"
    THEN AvatarUploaded(f, "null")
    ELSE [ FormLog(f, "avatars.upload") EXCEPT !.s.pc = "awaitAvatarUpload" ]

\* handleSubmit up to its first pending call.
handleSubmit(f) ==
    IF ~ user
    THEN f
    ELSE uploadAvatar(
             [ FormLog([ f EXCEPT !.s = [ NoSubmission EXCEPT
                                            !.avatar = avatar ] ],
                       "setIsLoading(true)")
                 EXCEPT !.isLoading = TRUE ])

\* Faulty variant: a failed upsert leaves the finally block out.
ProfileUpsertSettledNoFinally(f, outcome) ==
    IF outcome = "ok"
    THEN SubmitFinally(FormToast(
             [ f EXCEPT !.storedAvatarUrl =
                          IF f.s.avatarUrl # "null" THEN f.s.avatarUrl ELSE @ ],
             ToastPerfil))
    ELSE [ FormToast(f, ToastErroPerfil) EXCEPT !.s.pc = "done" ]

\* The upsert sends avatar_url: avatarUrl || undefined, and an undefined
\* column is left as it is. Then: if (error) throw error; toast(...) /
\* catch: toast(...) / finally.
ProfileUpsertSettled(f, outcome) ==
    IF outcome = "ok"
    THEN SubmitFinally(FormToast(
             [ f EXCEPT !.storedAvatarUrl =
                          IF f.s.avatarUrl # "null" THEN f.s.avatarUrl ELSE @ ],
             ToastPerfil))
    ELSE SubmitFinally(FormToast(f, ToastErroPerfil))

\* handleAvatarChange with a file chosen.
HandleAvatarChange ==
    /\ avatar = "null"
    /\ avatar' = "file"
    /\ UNCHANGED << user, isLoading, submission, toasts, storedAvatarUrl,
                    submits >>
    /\ UNCHANGED << tvars, rvars, svars >>

\* The form is submitted; the submit button is disabled while isLoading.
Submit ==
    /\ ~ isLoading
    /\ submits < MaxSubmits
    /\ submits' = submits + 1
    /\ CommitForm(handleSubmit(Form))
    /\ UNCHANGED << user, avatar >>
    /\ UNCHANGED << tvars, rvars, svars >>

AvatarUploadSettles ==
    /\ submission.pc = "awaitAvatarUpload"
    /\ \E o \in SettleOutcomes : CommitForm(AvatarUploadSettled(Form, o))
    /\ UNCHANGED << user, avatar, submits >>
    /\ UNCHANGED << tvars, rvars, svars >>

ProfileUpsertSettles ==
    /\ submission.pc = "awaitUpsert"
    /\ \E o \in SettleOutcomes : CommitForm(ProfileUpsertSettled(Form, o))
    /\ UNCHANGED << user, avatar, submits >>
    /\ UNCHANGED << tvars, rvars, svars >>

(* ---------------------------------------------------------------------- *)
(* Specifications                                                          *)
(* ---------------------------------------------------------------------- *)

InitTranscription ==
    /\ isTranscribing = FALSE
    /\ transcriptionSegments = << >>
    /\ inv = [ i \in Invs |-> Idle ]

InitRecording ==
    /\ mounted = TRUE
    /\ isRecording = FALSE
    /\ isPaused = FALSE
    /\ audioContext = 0
    /\ analyser = 0
    /\ systemAnalyser = 0
    /\ effectContext = 0
    /\ contexts = [ c \in Ctxs |-> NoContext ]
    /\ audioDataRef = "null"
    /\ speech = NoSpeech
    /\ showStopConfirmation = FALSE
    /\ confirms = [ k \in Confirms |-> NoConfirm ]
    /\ stopCalls = 0

InitProfile ==
    /\ avatar = "null"
    /\ isLoading = FALSE
    /\ submission = NoSubmission
    /\ toasts = << >>
    /\ storedAvatarUrl = "null"
    /\ submits = 0

\* The props and globals of the components not under study.
DefaultTranscriptionProps ==
    /\ apiKey = << "s", "k" >>
    /\ transcriptionService = "openai"
    /\ hasOnMinutesUpdate = TRUE
    /\ minutes = TheMinutes

DefaultRecordingProps ==
    /\ systemAudioEnabled = FALSE
    /\ hasOnSpeechDetected = FALSE

DefaultProfileProps == user = TRUE

Init ==
    /\ InitTranscription /\ InitRecording /\ InitProfile
    /\ apiKey \in ApiKeys
    /\ transcriptionService \in Services
    /\ hasOnMinutesUpdate \in BOOLEAN
    /\ minutes \in { NoMinutes, TheMinutes }
    /\ DefaultRecordingProps /\ DefaultProfileProps

Next ==
    \E i \in Invs :
        \/ Invoke(i)
        \/ UploadSettles(i)
        \/ GoogleSettles(i)
        \/ FetchSettles(i)
        \/ ErrorDataSettles(i)
        \/ ResponseJsonSettles(i)
        \/ ProcessSettles(i)
        \/ GetUserSettles(i)
        \/ UpsertSettles(i)
        \/ InsertSettles(i)
        \/ AnalysisFetchSettles(i)
        \/ AnalysisJsonSettles(i)

\* handleTranscription invocations, overlapping freely.
Spec == Init /\ [][Next]_vars

InitAnalysis ==
    /\ InitTranscription /\ InitRecording /\ InitProfile
    /\ DefaultTranscriptionProps
    /\ DefaultRecordingProps /\ DefaultProfileProps

NextAnalysis ==
    \E i \in Invs :
        \/ AnalyzeDirect(i)
        \/ InsertSettles(i)
        \/ AnalysisFetchSettles(i)
        \/ AnalysisJsonSettles(i)

\* analyzeTranscription called directly.
SpecAnalysis == InitAnalysis /\ [][NextAnalysis]_vars

InitRecordingControls ==
    /\ InitTranscription /\ InitRecording /\ InitProfile
    /\ DefaultTranscriptionProps /\ DefaultProfileProps
    /\ systemAudioEnabled \in BOOLEAN
    /\ hasOnSpeechDetected \in BOOLEAN

NextRecording ==
    \/ StartRecording
    \/ PauseRecording
    \/ ResumeRecording
    \/ StopRecording
    \/ Unmount
    \/ SpeechDetected
    \/ \E c \in Ctxs : MicSettles(c) \/ DisplaySettles(c)

\* RecordingControls under its parent's start / pause / resume / stop.
SpecRecording == InitRecordingControls /\ [][NextRecording]_vars

InitStop ==
    /\ InitTranscription /\ InitRecording /\ InitProfile
    /\ DefaultTranscriptionProps /\ DefaultProfileProps
    /\ DefaultRecordingProps

NextStop ==
    \/ StartRecording
    \/ PauseRecording
    \/ ResumeRecording
    \/ StopClick
    \/ DismissDialog
    \/ ConfirmStop
    \/ StopRecordingConfirmed
    \/ \E k \in Confirms : OnStopRecordingSettles(k)

\* RecordingControls under its user's stop clicks and the dialog's answers.
SpecStop == InitStop /\ [][NextStop]_vars

InitProfileSettings ==
    /\ InitTranscription /\ InitRecording /\ InitProfile
    /\ DefaultTranscriptionProps /\ DefaultRecordingProps
    /\ user \in BOOLEAN

NextProfile ==
    \/ HandleAvatarChange
    \/ Submit
    \/ AvatarUploadSettles
    \/ ProfileUpsertSettles

\* The profile form.
SpecProfile == InitProfileSettings /\ [][NextProfile]_vars

\* The profile form, every awaited call of a submission settling eventually.
FairSpecProfile ==
    /\ SpecProfile
    /\ WF_vars(AvatarUploadSettles)
    /\ WF_vars(ProfileUpsertSettles)

\* Every awaited call of an invocation eventually settles.
Settles(i) ==
    \/ UploadSettles(i)
    \/ GoogleSettles(i)
    \/ FetchSettles(i)
    \/ ErrorDataSettles(i)
    \/ ResponseJsonSettles(i)
    \/ ProcessSettles(i)
    \/ GetUserSettles(i)
    \/ UpsertSettles(i)
    \/ InsertSettles(i)
    \/ AnalysisFetchSettles(i)
    \/ AnalysisJsonSettles(i)

\* handleTranscription invocations whose external calls all settle.
FairSpec == Spec /\ \A i \in Invs : WF_vars(Settles(i))

(* ---------------------------------------------------------------------- *)
(* Properties                                                              *)
(* ---------------------------------------------------------------------- *)

Has(log, op) == \E k \in 1..Len(log) : log[k] = op

Count(log, op) == Cardinality({ k \in 1..Len(log) : log[k] = op })

\* Position of the first op in log (0 when absent).
Pos(log, op) ==
    IF Has(log, op)
    THEN CHOOSE k \in 1..Len(log) :
            log[k] = op /\ \A j \in 1..(k - 1) : log[j] # op
    ELSE 0

Before(log, a, b) == Has(log, a) /\ Has(log, b) /\ Pos(log, a) < Pos(log, b)

Handlers == { i \in Invs : inv[i].caller = "handler" }

OpUpload == "storage.upload"

OpGoogle == "transcribeWithGoogleCloud"

OpOpenAI == "fetch:openai"

OpUpsert == "meeting_minutes.upsert"

OpInsert == "transcription_history.insert"

OpPost == "fetch:/api/analyze-transcription"

ExternalCalls ==
    { OpUpload, OpGoogle, OpOpenAI, "processTranscriptionResult",
      "auth.getUser", OpUpsert, OpInsert, OpPost }

NoExternalCall(log) == \A k \in 1..Len(log) : log[k] \notin ExternalCalls

\* Errors of the upload, the transcription request and the minutes upsert.
UploadErrors == { MsgUpload, MsgUploadRejected }

TranscriptionErrors ==
    { MsgGoogle, Msg401, MsgOpenAI, MsgFetchRejected, MsgJsonRejected,
      MsgProcess }

UpsertErrors == { MsgMinutes, MsgUpsertRejected }

C1_Failed(r) ==
    r.caller = "handler"
        /\ r.error \in UploadErrors \cup TranscriptionErrors \cup UpsertErrors

(* C1: when the audio upload, the transcription request or the minutes     *)
(* upsert of a handleTranscription invocation fails, the invocation shows   *)
(* exactly one "Erro na transcrição" notification, never shows             *)
(* "Transcrição concluída" and never calls setTranscriptionSegments; the    *)
(* step in which it fails leaves the displayed segments as they were.       *)
C1_FailureShowsOneError ==
    /\ [](\A i \in Invs :
            C1_Failed(inv[i]) =>
                /\ Count(inv[i].log, ToastErro) = 1
                /\ ~ Has(inv[i].log, ToastConcluida)
                /\ ~ Has(inv[i].log, "setTranscriptionSegments"))
    /\ [][\A i \in Invs :
            (C1_Failed(inv'[i]) /\ inv'[i] # inv[i]) =>
                transcriptionSegments' = transcriptionSegments]_vars

\* An upsert failed while the segments of an earlier invocation are shown.
C1_Witness ==
    \E i \in Invs :
        /\ inv[i].pc = "done"
        /\ inv[i].error = MsgMinutes
        /\ transcriptionSegments # << >>
        /\ inv[i].segsBefore = transcriptionSegments

(* C2: a failure of the transcription_history insert or of the analysis     *)
(* POST shows a user-facing error notification, instead of the invocation   *)
(* ending with the success notification only.                               *)
C2_AnalysisFailureShowsError ==
    \A i \in Handlers :
        (inv[i].pc = "done" /\ inv[i].analysisFailure # "") =>
            Has(inv[i].log, ToastErro)

\* No setupAudioContext call is still waiting for a stream.
SetupsSettled ==
    \A c \in Ctxs : contexts[c].setup \notin { "awaitMic", "awaitDisplay" }

RecordingActive == mounted /\ isRecording /\ ~ isPaused

(* C3: once every pending setup has settled and recording is not active     *)
(* (stopped, paused or unmounted), no AudioContext the component created is *)
(* still open and no captured microphone or display stream is still live.   *)
C3_ResourcesReleased ==
    (SetupsSettled /\ ~ RecordingActive) =>
        \A c \in Ctxs :
            /\ contexts[c].state # "open"
            /\ contexts[c].micStream # "live"
            /\ contexts[c].displayStream # "live"

(* C4: every speech onset delivered to handleSpeechDetected while recording *)
(* is active and the analyser is set leads to a call of                     *)
(* identifyMostSimilarSpeaker and to onSpeechDetected reaching the parent.  *)
C4_SpeechIdentified ==
    /\ speech.identified >= speech.live
    /\ speech.delivered >= speech.live

(* C5: when the avatar upload of a submission fails, the submission shows   *)
(* an error notification; it does not end with "Perfil atualizado!" only.   *)
C5_AvatarFailureShowsError ==
    (submission.pc = "done" /\ submission.uploadFailed) =>
        Has(submission.log, ToastErroPerfil)

C6_Linear(r) ==
    /\ Count(r.log, OpUpload) <= 1
    /\ Count(r.log, OpGoogle) + Count(r.log, OpOpenAI) <= 1
    /\ Count(r.log, OpUpsert) <= 1
    /\ Count(r.log, OpInsert) <= 1
    /\ Count(r.log, OpPost) <= 1
    /\ \A t \in { OpGoogle, OpOpenAI } :
          Has(r.log, t) => Before(r.log, OpUpload, t) /\ r.audioPath # ""
    /\ Has(r.log, OpUpsert) =>
          /\ r.transcribed
          /\ \E t \in { OpGoogle, OpOpenAI } : Before(r.log, t, OpUpsert)
    /\ Has(r.log, OpInsert) =>
          Before(r.log, OpUpsert, OpInsert) /\ r.savedMinutes # NoMinutes
    /\ Has(r.log, OpPost) =>
          Before(r.log, OpInsert, OpPost) /\ r.transcriptionRecord
    /\ (r.error # "" \/ r.analysisFailure # "") =>
          /\ r.pc = "done"
          /\ \A k \in 1..Len(r.log) :
                r.log[k] \in ExternalCalls =>
                    \A j \in (k + 1)..Len(r.log) : r.log[j] # r.log[k]

(* C6: one handleTranscription invocation performs, each at most once and   *)
(* in this order, the upload, the transcription request, the minutes        *)
(* upsert, the history insert and the analysis POST; a step is started only *)
(* after the previous one succeeded, and a failed step is not attempted     *)
(* again.                                                                   *)
C6_LinearNoRetry == \A i \in Handlers : C6_Linear(inv[i])

\* An invocation went through all the steps.
C6_Witness ==
    \E i \in Handlers : inv[i].pc = "done" /\ Has(inv[i].log, OpPost)

C7_Ordered(r) ==
    /\ r.log[1] = "setIsTranscribing(true)"
    /\ Count(r.log, "setIsTranscribing(true)") = 1
    /\ (r.pc = "done") <=> Has(r.log, "setIsTranscribing(false)")
    /\ Has(r.log, "setIsTranscribing(false)") =>
          /\ r.log[Len(r.log)] = "setIsTranscribing(false)"
          /\ Count(r.log, "setIsTranscribing(false)") = 1
          /\ \/ Before(r.log, ToastErro, "setIsTranscribing(false)")
             \/ Before(r.log, ToastConcluida, "setIsTranscribing(false)")

(* C7: every handleTranscription invocation calls setIsTranscribing(true)   *)
(* first and, its external calls settling, eventually calls                 *)
(* setIsTranscribing(false) as its last state change, whatever the outcome, *)
(* and never before its success or error notification.                      *)
C7_TranscribingFlagBrackets ==
    /\ [](\A i \in Handlers : C7_Ordered(inv[i]))
    /\ [][\A i \in Invs : inv[i].pc = "done" => inv'[i] = inv[i]]_vars
    /\ \A i \in Invs : (inv[i].pc # "idle") ~> (inv[i].pc = "done")

\* An invocation whose analysis returned null has finished.
C7_Witness ==
    \E i \in Handlers :
        /\ inv[i].pc = "done"
        /\ inv[i].analysisFailure # ""
        /\ ~ isTranscribing

\* The keys the claim names: empty or blank, a placeholder, or masked.
C8_BadKey(k) ==
    \/ \A j \in 1..Len(k) : k[j] = " "
    \/ k = PlaceholderOpenAI
    \/ k = PlaceholderGoogle
    \/ \E j \in 1..Len(k) : k[j] = "*"

(* C8: with an API key that is empty, blank, a placeholder or masked,       *)
(* handleTranscription makes no external call, shows the destructive error  *)
(* notification and leaves the transcription segments unchanged.            *)
C8_BadKeyNoExternalCall ==
    /\ [](C8_BadKey(apiKey) =>
            \A i \in Handlers :
                /\ inv[i].pc = "done"
                /\ NoExternalCall(inv[i].log)
                /\ Count(inv[i].log, ToastErro) = 1
                /\ inv[i].error = MsgKey
                /\ ~ Has(inv[i].log, "setTranscriptionSegments"))
    /\ [][C8_BadKey(apiKey) =>
            transcriptionSegments' = transcriptionSegments]_vars

\* An invocation with a masked key has run.
C8_Witness ==
    /\ Includes(apiKey, "*")
    /\ \E i \in Handlers : inv[i].pc = "done"

\* onMinutesUpdate: only on a non-null analysis, once, with the saved minutes
\* carrying the analysis summary, and before setTranscriptionSegments.
C9_MinutesUpdate(r) ==
    /\ Has(r.log, "onMinutesUpdate") =>
          /\ ~ r.analysis.null
          /\ Count(r.log, "onMinutesUpdate") = 1
          /\ r.updatedMinutes =
                [ r.savedMinutes EXCEPT !.summary = r.analysis.summary ]
          /\ r.pc = "done"
          /\ Before(r.log, "onMinutesUpdate", "setTranscriptionSegments")
    /\ (~ Has(r.log, "onMinutesUpdate")) => r.updatedMinutes = NoMinutes

\* With no segment or no minutes: the segments are shown, nothing is saved.
C9_NothingToSave(r) ==
    (r.pc = "done" /\ r.transcribed
        /\ (Len(r.segments) = 0 \/ r.minutes = NoMinutes)) =>
        /\ Has(r.log, "setTranscriptionSegments")
        /\ r.shown = r.segments
        /\ ~ Has(r.log, OpUpsert)
        /\ ~ Has(r.log, OpInsert)
        /\ ~ Has(r.log, OpPost)

C9_ToSave(r) == r.transcribed /\ Len(r.segments) > 0 /\ r.minutes # NoMinutes

(* C9 as stated: the upsert and the analysis are performed if and only if   *)
(* the transcription returned a segment and minutes were supplied;          *)
(* onMinutesUpdate only on a non-null analysis, once, with the summary      *)
(* replaced, before setTranscriptionSegments; otherwise the segments are    *)
(* still shown and nothing is saved or analysed. (Invocations whose user    *)
(* lookup for the upsert was rejected are left aside.)                      *)
C9_SavedIffSegmentsAndMinutes ==
    \A i \in Handlers :
        /\ (inv[i].pc = "done" /\ inv[i].transcribed
                /\ inv[i].error # MsgGetUser) =>
              ((Has(inv[i].log, OpUpsert) /\ Has(inv[i].log, OpInsert))
                  <=> C9_ToSave(inv[i]))
        /\ C9_MinutesUpdate(inv[i])
        /\ C9_NothingToSave(inv[i])

(* C9 amended: the upsert is attempted if and only if the transcription     *)
(* returned a segment, minutes were supplied and the auth.getUser lookup    *)
(* resolved; the analysis is started if and only if that upsert succeeded;  *)
(* the rest as stated.                                                      *)
C9_SavedWhenUpsertSucceeds ==
    \A i \in Handlers :
        /\ Has(inv[i].log, OpUpsert) => C9_ToSave(inv[i])
        /\ (inv[i].pc = "done" /\ C9_ToSave(inv[i])) =>
              (Has(inv[i].log, OpUpsert) <=> inv[i].error # MsgGetUser)
        /\ Has(inv[i].log, OpInsert) => Has(inv[i].log, OpUpsert)
        /\ (inv[i].pc = "done" /\ Has(inv[i].log, OpUpsert)) =>
              (Has(inv[i].log, OpInsert) <=> inv[i].error \notin UpsertErrors)
        /\ C9_MinutesUpdate(inv[i])
        /\ C9_NothingToSave(inv[i])

\* One invocation updated the minutes, another had no segment to save.
C9_Witness ==
    \E i, j \in Handlers :
        /\ inv[i].pc = "done" /\ Has(inv[i].log, "onMinutesUpdate")
        /\ inv[j].pc = "done" /\ inv[j].transcribed /\ inv[j].segments = << >>

Directs == { i \in Invs : inv[i].caller = "direct" }

C10_Analysis(r) ==
    /\ r.pc \in { "awaitInsert", "awaitAnalysisFetch", "awaitAnalysisJson",
                  "returned" }
    /\ r.audioPath = "" =>
          r.pc = "returned" /\ r.analysis = Null /\ r.log = << >>
    /\ (r.pc = "returned" /\ r.analysisFailure # "") => r.analysis = Null
    /\ Has(r.log, OpPost) =>
          r.transcriptionRecord /\ Before(r.log, OpInsert, OpPost)
    /\ r.analysis # Null =>
          /\ r.pc = "returned"
          /\ r.analysis \in AnalysisBodies
          /\ r.transcriptionRecord
          /\ Has(r.log, OpPost)
          /\ r.analysisFailure = ""

(* C10: analyzeTranscription always returns: null when audioPath is         *)
(* missing, when the history insert fails or yields no record, when the     *)
(* POST fails or is not OK; the parsed response only when insert and POST   *)
(* succeeded. Without audioPath it makes neither call, and it never posts   *)
(* without an inserted history record.                                      *)
C10_AnalysisNeverThrows == \A i \in Directs : C10_Analysis(inv[i])

\* One call without audioPath returned null, another returned a response.
C10_Witness ==
    \E i, j \in Directs :
        /\ inv[i].pc = "returned" /\ inv[i].audioPath = ""
        /\ inv[j].pc = "returned" /\ inv[j].analysis # Null

\* The confirmStopRecording calls made so far.
Confirmed == { k \in Confirms : confirms[k].pc # "idle" }

\* A confirmStopRecording call closes the dialog first, invokes
\* onStopRecording once, and notifies only once that call has resolved.
C11_Confirmation(c) ==
    /\ Len(c.log) >= 2
    /\ c.log[1] = "setShowStopConfirmation(false)"
    /\ c.log[2] = "onStopRecording"
    /\ Count(c.log, "onStopRecording") = 1
    /\ Count(c.log, ToastAndamento) <= 1
    /\ Has(c.log, ToastAndamento) =>
          /\ c.pc = "done"
          /\ c.stopped = "resolved"
          /\ Before(c.log, "onStopRecording", ToastAndamento)

\* What a step of the stop flow may do to the calls of onStopRecording.
C11_Step ==
    \* only a confirmation invokes onStopRecording, once, closing the dialog
    /\ stopCalls' # stopCalls =>
          /\ showStopConfirmation /\ ~ showStopConfirmation'
          /\ stopCalls' = stopCalls + 1
          /\ \E k \in Confirms :
                /\ confirms[k].pc = "idle"
                /\ confirms'[k].pc = "awaitStop"
                /\ \A j \in Confirms \ { k } : confirms'[j] = confirms[j]
    \* the stop click opens the dialog and nothing else
    /\ (~ showStopConfirmation /\ showStopConfirmation') =>
          /\ stopCalls' = stopCalls
          /\ confirms' = confirms
          /\ isRecording' = isRecording
    \* closing the dialog without confirming invokes nothing
    /\ (showStopConfirmation /\ ~ showStopConfirmation'
            /\ \A k \in Confirms : confirms'[k].pc = confirms[k].pc) =>
          stopCalls' = stopCalls

(* C11: onStopRecording is invoked only by confirmStopRecording. A click    *)
(* on the stop control only opens the confirmation dialog and does not      *)
(* stop the recording; dismissing the dialog never invokes onStopRecording; *)
(* each confirmation closes the dialog, invokes onStopRecording exactly     *)
(* once, and shows "Transcrição em andamento" only after onStopRecording    *)
(* has completed.                                                           *)
C11_StopOnlyOnConfirmation ==
    /\ [](/\ stopCalls = Cardinality(Confirmed)
          /\ \A k \in Confirmed : C11_Confirmation(confirms[k]))
    /\ [][C11_Step]_vars

\* The dialog was confirmed twice and is closed: one onStopRecording call
\* resolved and was notified, the other rejected and was not.
C11_Witness ==
    /\ stopCalls = 2
    /\ ~ showStopConfirmation
    /\ \E j, k \in Confirmed :
          /\ Has(confirms[j].log, ToastAndamento)
          /\ confirms[k].stopped = "rejected"
          /\ ~ Has(confirms[k].log, ToastAndamento)

\* The handleSubmit call is suspended at one of its awaits.
Submitting == submission.pc \in { "awaitAvatarUpload", "awaitUpsert" }

SubmitToasts(log) == Count(log, ToastPerfil) + Count(log, ToastErroPerfil)

\* Without a user id handleSubmit has done nothing, however often called.
C12_NoUser ==
    ~ user =>
        /\ submission = NoSubmission
        /\ ~ isLoading
        /\ toasts = << >>
        /\ storedAvatarUrl = "null"

\* With a user id: isLoading is set before the first external call, is
\* true exactly while the call is suspended, and a finished call has shown
\* one of the two notifications and then reset isLoading.
C12_Submission ==
    (user /\ submits > 0) =>
        LET log == submission.log IN
        /\ submission.pc # "idle"
        /\ log[1] = "setIsLoading(true)"
        /\ Count(log, "setIsLoading(true)") = 1
        /\ isLoading <=> Submitting
        /\ Submitting =>
              /\ SubmitToasts(log) = 0
              /\ ~ Has(log, "setIsLoading(false)")
              /\ Len(toasts) = submits - 1
        /\ submission.pc = "done" =>
              /\ Has(log, "profiles.upsert")
              /\ SubmitToasts(log) = 1
              /\ log[Len(log)] = "setIsLoading(false)"
              /\ log[Len(log) - 1] \in { ToastPerfil, ToastErroPerfil }
              /\ Count(log, "setIsLoading(false)") = 1
              /\ Len(toasts) = submits
              /\ toasts[Len(toasts)] = log[Len(log) - 1]

(* C12: handleSubmit does nothing (no upload, no upsert, no notification,   *)
(* isLoading unchanged) when there is no authenticated user id; otherwise   *)
(* it sets isLoading to true before the first external call and, once the   *)
(* avatar upload and the profile upsert have settled, sets isLoading back   *)
(* to false on success and on failure alike, having shown exactly one of    *)
(* "Perfil atualizado!" and "Erro ao atualizar perfil" per submission.      *)
C12_LoadingBracketsSubmission ==
    /\ [](C12_NoUser /\ C12_Submission)
    /\ isLoading ~> ~ isLoading

\* Two submissions have finished, one with each notification.
C12_Witness ==
    /\ user
    /\ submission.pc = "done"
    /\ ~ isLoading
    /\ Has(toasts, ToastPerfil)
    /\ Has(toasts, ToastErroPerfil)

\* The handleTranscription invocations suspended at one of their awaits.
InFlight == { i \in Handlers : inv[i].pc # "done" }

(* C13: isTranscribing is true whenever at least one handleTranscription    *)
(* invocation is still in flight, overlapping invocations included; it is   *)
(* false only when no invocation remains in flight.                         *)
C13_TranscribingWhileInFlight == InFlight # { } => isTranscribing

====
